---------------------------- MODULE Spec2Model ----------------------------
(***************************************************************************)
(* A model of `map`: directive parsing (directive.rs), rule matching       *)
(* (rule.rs), task resolution (mapping.rs), the copy and move actions      *)
(* (action.rs) and the run loop (main.rs).                                 *)
(*                                                                         *)
(* Strings are sequences of one-character strings.  A path (PathBuf) is    *)
(* the sequence of its components, each component a string; the            *)
(* components RootDir and ParentDir stand for a leading "/" and for "..".  *)
(* The filesystem is the set of directories and the regular files with a   *)
(* tag for their content.                                                  *)
(***************************************************************************)
EXTENDS Integers, Sequences, FiniteSets, TLC

VARIABLES
    pc,                    \* where the operation under check stands
    all_directives,        \* mapping_from_string: the directives tried
    directive_definition,  \* mapping_from_string: the configuration line
    dispatched,            \* mapping_from_string: its return value
    rules,                 \* run: the rules file's lines, or the rules argument
    mappings,              \* Vec<Mapping>
    files,                 \* Vec<PathBuf>: the candidate files
    tasks,                 \* Vec<MapFileTask>: the tasks not yet executed
    file_context,          \* MapFileContext
    dirs,                  \* filesystem: the directories
    contents,              \* filesystem: the regular files and their content
    executed,              \* the task executions so far, with their results
    result                 \* Result of the operation under check

dispatchVars == <<all_directives, directive_definition, dispatched>>

fsVars == <<dirs, contents>>

runVars == <<rules, mappings, files, tasks, file_context, fsVars, executed, result>>

vars == <<pc, dispatchVars, runVars>>

---------------------------------------------------------------------------
(* Bounds of the model.                                                    *)

MaxLineLen == 5
MaxDirectives == 2

---------------------------------------------------------------------------
(* Strings.                                                                *)

\* The characters configuration lines are drawn from: the two directive
\* letters (which are also ordinary pattern and destination characters),
\* the separator, white space, and "(" (alone, an invalid pattern).
Chars == {"c", "m", "/", " ", "("}

SeqsUpTo(S, n) == UNION {[1..k -> S] : k \in 0..n}

Range(s) == {s[i] : i \in DOMAIN s}

Min(S) == CHOOSE x \in S : \A y \in S : x <= y

Max(S) == CHOOSE x \in S : \A y \in S : y <= x

\* \s of the regex crate, on the characters of the model
IsSpace(ch) == ch = " "

\* The position after the longest run of white space starting at i.
SkipSpaces(s, i) ==
    LET stops == {j \in i..Len(s) : ~IsSpace(s[j])}
    IN IF stops = {} THEN Len(s) + 1 ELSE Min(stops)

\* Regex::is_match of a pattern of literal characters: an unanchored search.
is_match(pattern, text) ==
    \E i \in 0..(Len(text) - Len(pattern)) :
        \A k \in 1..Len(pattern) : text[i + k] = pattern[k]

\* Regex::new: of the model's characters only "(" is a metacharacter, and an
\* unclosed group does not compile.
RegexCompiles(pattern) == "(" \notin Range(pattern)

---------------------------------------------------------------------------
(* Paths.                                                                  *)

RootDir == <<"/">>
ParentDir == <<".", ".">>

RECURSIVE SplitComponents(_, _)
\* The components of a path string: split at "/", empty components dropped.
\* `cur` is the component being read.
SplitComponents(s, cur) ==
    IF s = <<>>
    THEN IF cur = <<>> THEN <<>> ELSE <<cur>>
    ELSE IF Head(s) = "/"
         THEN (IF cur = <<>> THEN <<>> ELSE <<cur>>) \o SplitComponents(Tail(s), <<>>)
         ELSE SplitComponents(Tail(s), Append(cur, Head(s)))

\* PathBuf::from
PathBufFrom(s) ==
    (IF s # <<>> /\ Head(s) = "/" THEN <<RootDir>> ELSE <<>>) \o SplitComponents(s, <<>>)

\* Path::join: an absolute path replaces the base.
Join(base, path) ==
    IF path # <<>> /\ Head(path) = RootDir THEN path ELSE base \o path

NoName == <<>>

\* Path::file_name, NoName for None: a path that is empty, is the root or
\* ends in ".." has no file name.
file_name(path) ==
    IF path = <<>> \/ path[Len(path)] = RootDir \/ path[Len(path)] = ParentDir
    THEN NoName
    ELSE path[Len(path)]

---------------------------------------------------------------------------
(* Mappings, and the values of Option<Result<Mapping>>.                    *)

RegexRule(regex) == [rule |-> regex]

CopyAction(relative_destination) ==
    [kind |-> "Copy", relative_destination |-> relative_destination]

MoveAction(relative_destination) ==
    [kind |-> "Move", relative_destination |-> relative_destination]

Mapping(rule, action) == [rule |-> rule, action |-> action]

NoMapping == Mapping(RegexRule(<<>>), [kind |-> "None", relative_destination |-> <<>>])

None == [tag |-> "None", mapping |-> NoMapping, error |-> <<>>]

SomeOk(mapping) == [tag |-> "SomeOk", mapping |-> mapping, error |-> <<>>]

SomeErr(error) == [tag |-> "SomeErr", mapping |-> NoMapping, error |-> error]

---------------------------------------------------------------------------
(* Directives.                                                             *)

NoCaptures == [matched |-> FALSE, regex |-> <<>>, destination |-> <<>>]

\* The captures of ^\s*L\s*/(?P<regex>.*?)/\s*(?P<destination>.+?)\s*$ for
\* the directive letter L, with the regex crate's leftmost-first choice:
\* the lazy regex group ends at the first "/" after which the rest of the
\* line matches; the greedy \s* before the destination gives back its last
\* space when nothing else is left for the lazy .+? group.
Captures(letter, definition) ==
    LET n == Len(definition)
        atLetter == SkipSpaces(definition, 1)
        atSlash == SkipSpaces(definition, atLetter + 1)
        RestMatches(from) == from <= n
        closing == {e \in (atSlash + 1)..n : definition[e] = "/" /\ RestMatches(e + 1)}
    IN IF /\ atLetter <= n
          /\ definition[atLetter] = letter
          /\ atSlash <= n
          /\ definition[atSlash] = "/"
          /\ closing # {}
       THEN LET e == Min(closing)
                first == SkipSpaces(definition, e + 1)
                last == Max({j \in (e + 1)..n : ~IsSpace(definition[j])} \cup {e})
            IN [matched |-> TRUE,
                regex |-> SubSeq(definition, atSlash + 1, e - 1),
                destination |-> IF first <= n
                                THEN SubSeq(definition, first, last)
                                ELSE SubSeq(definition, n, n)]
       ELSE NoCaptures

\* mutant: the Mapping is built whether or not the pattern compiles
action_factory_unchecked(directive_name, captures) ==
    SomeOk(Mapping(RegexRule(captures.regex),
                   IF directive_name = "Copy"
                   THEN CopyAction(PathBufFrom(captures.destination))
                   ELSE MoveAction(PathBufFrom(captures.destination))))

\* The action_factory of the Copy and Move directives.
action_factory(directive_name, captures) ==
    IF ~RegexCompiles(captures.regex)
    THEN SomeErr(<<IF directive_name = "Copy"
                   THEN "Unable to parse regex for copy rule {}"
                   ELSE "Unable to parse regex for move rule {}",
                   captures.regex>>)
    ELSE SomeOk(Mapping(RegexRule(captures.regex),
                        IF directive_name = "Copy"
                        THEN CopyAction(PathBufFrom(captures.destination))
                        ELSE MoveAction(PathBufFrom(captures.destination))))

copy_regex_directive == "Copy"
move_regex_directive == "Move"

\* The directive of directive.rs's tests: it accepts every line, with an error.
RecordingTestDirective == "Test directive"

expected_definition == <<"c">>

create_directives == <<copy_regex_directive, move_regex_directive>>

\* mutant: the Move grammar takes the Copy letter too
create_mapping_either_letter(directive, definition) ==
    IF directive = RecordingTestDirective
    THEN IF definition = expected_definition
         THEN SomeErr(<<"matches">>)
         ELSE SomeErr(<<"Does not match">>)
    ELSE LET ofCopy == Captures("c", definition)
             ofMove == Captures("m", definition)
             captures == IF directive = copy_regex_directive \/ ~ofMove.matched
                         THEN ofCopy
                         ELSE ofMove
         IN IF captures.matched THEN action_factory(directive, captures) ELSE None

\* MappingDirective::create_mapping
create_mapping(directive, definition) ==
    IF directive = RecordingTestDirective
    THEN IF definition = expected_definition
         THEN SomeErr(<<"matches">>)
         ELSE SomeErr(<<"Does not match">>)
    ELSE LET captures == Captures(IF directive = copy_regex_directive THEN "c" ELSE "m",
                                  definition)
         IN IF captures.matched THEN action_factory(directive, captures) ELSE None

\* impl Display: a directive prints as its name.
Display(directive) == directive

RECURSIVE DirectiveLoop(_, _, _, _)
\* The loop of mapping_from_string over all_directives from position i on.
DirectiveLoop(directives, definition, i, acc) ==
    IF i > Len(directives)
    THEN acc
    ELSE LET created == create_mapping(directives[i], definition)
         IN DirectiveLoop(directives, definition, i + 1,
                IF created.tag # "None"
                THEN [matched_directives |-> Append(acc.matched_directives, directives[i]),
                      found_mapping |-> created]
                ELSE acc)

RECURSIVE FoldNames(_, _)
\* matched_directives.iter().fold(String::new(), |accum, next| format!("{}, {}", accum, next))
FoldNames(matched, accum) ==
    IF matched = <<>>
    THEN accum
    ELSE FoldNames(Tail(matched), accum \o <<", ", Display(Head(matched))>>)

AmbiguousDirective(definition, directive_list) ==
    <<"Ambiguous directive '{}', which matched {}", definition, directive_list>>

\* mutant: two matches are let through
mapping_from_string_two(directives, definition) ==
    LET loop == DirectiveLoop(directives, definition, 1,
                    [matched_directives |-> <<>>, found_mapping |-> None])
    IN IF Len(loop.matched_directives) > 2
       THEN SomeErr(AmbiguousDirective(definition, FoldNames(loop.matched_directives, <<>>)))
       ELSE loop.found_mapping

\* mutant: the result of the last directive tried is kept, matched or not
mapping_from_string_last(directives, definition) ==
    LET loop == DirectiveLoop(directives, definition, 1,
                    [matched_directives |-> <<>>, found_mapping |-> None])
    IN IF Len(loop.matched_directives) > 1
       THEN SomeErr(AmbiguousDirective(definition, FoldNames(loop.matched_directives, <<>>)))
       ELSE IF directives = <<>>
            THEN None
            ELSE create_mapping(directives[Len(directives)], definition)

\* mutant: anything but one match is ambiguous
mapping_from_string_not_one(directives, definition) ==
    LET loop == DirectiveLoop(directives, definition, 1,
                    [matched_directives |-> <<>>, found_mapping |-> None])
    IN IF Len(loop.matched_directives) # 1
       THEN SomeErr(AmbiguousDirective(definition, FoldNames(loop.matched_directives, <<>>)))
       ELSE loop.found_mapping

mapping_from_string(directives, definition) ==
    LET loop == DirectiveLoop(directives, definition, 1,
                    [matched_directives |-> <<>>, found_mapping |-> None])
    IN IF Len(loop.matched_directives) > 1
       THEN SomeErr(AmbiguousDirective(definition, FoldNames(loop.matched_directives, <<>>)))
       ELSE loop.found_mapping

---------------------------------------------------------------------------
(* mapping_from_string applied to one line and one list of directives.     *)

Pending == [tag |-> "Pending", error |-> <<>>]

Ok == [tag |-> "Ok", error |-> <<>>]

Err(error) == [tag |-> "Err", error |-> error]

\* a panic: the program aborts
Panic == [tag |-> "Panic", error |-> <<>>]

\* The variables of the resolver and of the run, in a specification that
\* does not use them.
RunIdle ==
    /\ rules = <<>>
    /\ mappings = <<>>
    /\ files = <<>>
    /\ tasks = <<>>
    /\ file_context = [source_dir |-> <<>>, dest_dir |-> <<>>, dry_run |-> FALSE]
    /\ dirs = {}
    /\ contents = <<>>
    /\ executed = <<>>
    /\ result = Pending

DispatchIdle ==
    /\ all_directives = <<>>
    /\ directive_definition = <<>>
    /\ dispatched = None

Lines == SeqsUpTo(Chars, MaxLineLen)

Directives == {copy_regex_directive, move_regex_directive, RecordingTestDirective}

DispatchInit ==
    /\ pc = "dispatch"
    /\ all_directives \in SeqsUpTo(Directives, MaxDirectives)
    /\ directive_definition \in Lines
    /\ dispatched = None
    /\ RunIdle

Dispatch ==
    /\ pc = "dispatch"
    /\ dispatched' = mapping_from_string(all_directives, directive_definition)
    /\ pc' = "dispatched"
    /\ UNCHANGED <<all_directives, directive_definition, runVars>>

DispatchNext == Dispatch

SpecDispatch == DispatchInit /\ [][DispatchNext]_vars

\* The positions of the directives that return Some(...) for the line.
MatchingPositions ==
    {i \in DOMAIN all_directives :
        create_mapping(all_directives[i], directive_definition).tag # "None"}

\* The names of the directives at the matching positions, in list order.
RECURSIVE MatchedNames(_)
MatchedNames(i) ==
    IF i > Len(all_directives)
    THEN <<>>
    ELSE (IF i \in MatchingPositions THEN <<Display(all_directives[i])>> ELSE <<>>)
         \o MatchedNames(i + 1)

\* The names a folded directive list holds: each follows a ", ".
NamesIn(directive_list) ==
    [k \in 1..(Len(directive_list) \div 2) |-> directive_list[2 * k]]

\* C1: when two or more directives return Some(...) for the line,
\* mapping_from_string returns Some(Err(..)) with the ambiguity message,
\* which holds the line and the name of every directive that matched,
\* whatever their inner results.
C1_AmbiguousWhenSeveralMatch ==
    (pc = "dispatched" /\ Cardinality(MatchingPositions) >= 2) =>
        /\ dispatched.tag = "SomeErr"
        /\ Len(dispatched.error) = 3
        /\ dispatched.error[1] = "Ambiguous directive '{}', which matched {}"
        /\ dispatched.error[2] = directive_definition
        /\ NamesIn(dispatched.error[3]) = MatchedNames(1)

\* Two directives matched, one with a Mapping and one with an error.
C1_Witness ==
    /\ pc = "dispatched"
    /\ dispatched.tag = "SomeErr"
    /\ \E i, j \in MatchingPositions :
          /\ create_mapping(all_directives[i], directive_definition).tag = "SomeOk"
          /\ create_mapping(all_directives[j], directive_definition).tag = "SomeErr"

\* C2: when exactly one directive returns Some(...) for the line,
\* mapping_from_string returns that directive's own result, wherever the
\* directive stands in the list.
C2_SingleMatchPassedThrough ==
    (pc = "dispatched" /\ Cardinality(MatchingPositions) = 1) =>
        LET i == CHOOSE i \in MatchingPositions : TRUE
        IN dispatched = create_mapping(all_directives[i], directive_definition)

\* The one matching directive is followed by one that does not match.
C2_Witness ==
    /\ pc = "dispatched"
    /\ Len(all_directives) = 2
    /\ MatchingPositions = {1}
    /\ dispatched.tag = "SomeOk"

\* C3: when no directive returns Some(...) for the line, the empty line
\* included, mapping_from_string returns None and no error.
C3_NoMatchNoMapping ==
    (pc = "dispatched" /\ MatchingPositions = {}) => dispatched = None

\* The empty line, tried against the program's two directives.
C3_Witness ==
    /\ pc = "dispatched"
    /\ all_directives = create_directives
    /\ directive_definition = <<>>
    /\ dispatched = None

---------------------------------------------------------------------------
(* Rules and the resolver (rule.rs, mapping.rs).                           *)

\* mutant: the pattern is looked for in every component of the path
file_matches_rule_anywhere(rule, file) ==
    IF file_name(file) = NoName
    THEN "panic"
    ELSE IF \E k \in DOMAIN file : is_match(rule.rule, file[k]) THEN "true" ELSE "false"

\* RegexRule::file_matches_rule.  file.file_name().unwrap() panics for a
\* path without a file name.
file_matches_rule(rule, file) ==
    IF file_name(file) = NoName
    THEN "panic"
    ELSE IF is_match(rule.rule, file_name(file)) THEN "true" ELSE "false"

\* The closure create_task builds: the action's kind and destination, and
\* the file it is bound to.
create_task(action, file) ==
    [kind |-> action.kind,
     file |-> file,
     relative_destination |-> action.relative_destination]

NoTask == create_task(NoMapping.action, <<>>)

DuplicateRuleMatch(found_rule, rule, file) ==
    <<"Duplicate rules {:?} and {:?} match file {}", found_rule, rule, file>>

RECURSIVE MappingLoop(_, _, _, _)
\* The loop of determine_task over the mappings from position i on; acc
\* holds task and found_mapping.
MappingLoop(mappingList, file, i, acc) ==
    IF i > Len(mappingList)
    THEN [tag |-> "Ok", task |-> acc.task, error |-> <<>>]
    ELSE LET mapping == mappingList[i]
             matches == file_matches_rule(mapping.rule, file)
         IN IF matches = "panic"
            THEN [tag |-> "Panic", task |-> NoTask, error |-> <<>>]
            ELSE IF matches = "true"
                 THEN IF acc.task = NoTask
                      THEN MappingLoop(mappingList, file, i + 1,
                               [task |-> create_task(mapping.action, file),
                                found_mapping |-> mapping])
                      ELSE [tag |-> "Err", task |-> NoTask,
                            error |-> DuplicateRuleMatch(acc.found_mapping.rule,
                                                         mapping.rule, file)]
                 ELSE MappingLoop(mappingList, file, i + 1, acc)

determine_task(mappingList, file) ==
    MappingLoop(mappingList, file, 1, [task |-> NoTask, found_mapping |-> NoMapping])

RECURSIVE FileLoop(_, _, _, _)
\* The loop of determine_tasks over the files from position j on.
FileLoop(mappingList, fileList, j, taskList) ==
    IF j > Len(fileList)
    THEN [tag |-> "Ok", tasks |-> taskList, error |-> <<>>]
    ELSE LET task == determine_task(mappingList, fileList[j])
         IN IF task.tag # "Ok"
            THEN [tag |-> task.tag, tasks |-> <<>>, error |-> task.error]
            ELSE FileLoop(mappingList, fileList, j + 1,
                     IF task.task # NoTask THEN Append(taskList, task.task) ELSE taskList)

RECURSIVE FileLoopFront(_, _, _, _)
\* mutant: a task is put in front of the tasks found before it
FileLoopFront(mappingList, fileList, j, taskList) ==
    IF j > Len(fileList)
    THEN [tag |-> "Ok", tasks |-> taskList, error |-> <<>>]
    ELSE LET task == determine_task(mappingList, fileList[j])
         IN IF task.tag # "Ok"
            THEN [tag |-> task.tag, tasks |-> <<>>, error |-> task.error]
            ELSE FileLoopFront(mappingList, fileList, j + 1,
                     IF task.task # NoTask THEN <<task.task>> \o taskList ELSE taskList)

determine_tasks_front(mappingList, fileList) == FileLoopFront(mappingList, fileList, 1, <<>>)

RECURSIVE FileLoopLenient(_, _, _, _)
\* mutant: a file that two rules match is passed over
FileLoopLenient(mappingList, fileList, j, taskList) ==
    IF j > Len(fileList)
    THEN [tag |-> "Ok", tasks |-> taskList, error |-> <<>>]
    ELSE LET task == determine_task(mappingList, fileList[j])
         IN IF task.tag = "Panic"
            THEN [tag |-> task.tag, tasks |-> <<>>, error |-> task.error]
            ELSE FileLoopLenient(mappingList, fileList, j + 1,
                     IF task.tag = "Ok" /\ task.task # NoTask
                     THEN Append(taskList, task.task)
                     ELSE taskList)

determine_tasks_lenient(mappingList, fileList) == FileLoopLenient(mappingList, fileList, 1, <<>>)

determine_tasks(mappingList, fileList) == FileLoop(mappingList, fileList, 1, <<>>)

---------------------------------------------------------------------------
(* determine_tasks applied to a list of mappings and a list of paths.      *)

MaxMappings == 2
MaxFiles == 2

\* File names and directory names: strings without "/".
Names == {<<"c">>, <<"m">>, <<"c", "m">>}

SourceDir == << <<"c">>, <<"m">> >>

\* The paths handed to the resolver: files of the source directory, a file
\* below a directory named like a file, and a path that ends in "..".
ResolverPaths ==
    {SourceDir \o <<name>> : name \in Names}
        \cup {<< <<"c">>, <<"m">> >>, SourceDir \o << <<"c">>, ParentDir >>}

RelativeDestinations == {<< <<"c">> >>, << <<"m">> >>}

\* The Mappings the directives build from lines of at most MaxLineLen
\* characters have patterns of at most one character.
ResolverMappings ==
    {Mapping(RegexRule(regex), action) :
        regex \in {<<>>, <<"c">>, <<"m">>},
        action \in {CopyAction(d) : d \in RelativeDestinations}
                       \cup {MoveAction(d) : d \in RelativeDestinations}}

ResolveInit ==
    /\ pc = "resolve"
    /\ DispatchIdle
    /\ rules = <<>>
    /\ mappings \in SeqsUpTo(ResolverMappings, MaxMappings)
    /\ files \in SeqsUpTo(ResolverPaths, MaxFiles)
    /\ tasks = <<>>
    /\ file_context = [source_dir |-> SourceDir, dest_dir |-> << <<"m">> >>, dry_run |-> FALSE]
    /\ dirs = {}
    /\ contents = <<>>
    /\ executed = <<>>
    /\ result = Pending

Resolve ==
    /\ pc = "resolve"
    /\ LET determined == determine_tasks(mappings, files)
       IN /\ tasks' = determined.tasks
          /\ result' = [tag |-> determined.tag, error |-> determined.error]
    /\ pc' = "resolved"
    /\ UNCHANGED <<dispatchVars, rules, mappings, files, file_context, fsVars, executed>>

ResolveNext == Resolve

SpecResolve == ResolveInit /\ [][ResolveNext]_vars

\* The positions of the mappings whose rule matches the file.
MatchingMappings(file) ==
    {i \in DOMAIN mappings : file_matches_rule(mappings[i].rule, file) = "true"}

\* The positions of the files that match some mapping.
MatchedFiles == {j \in DOMAIN files : MatchingMappings(files[j]) # {}}

\* The k-th matched file's position.
NthMatched(k) ==
    CHOOSE j \in MatchedFiles : Cardinality({i \in MatchedFiles : i <= j}) = k

\* C4 (as stated): when every file matches at most one mapping's rule,
\* determine_tasks succeeds with exactly one task for each file that matches
\* a mapping, built by that mapping's action, none for the other files, and
\* no more tasks than files.
C4_OneTaskPerMatchedFile ==
    (pc = "resolved" /\ \A j \in DOMAIN files : Cardinality(MatchingMappings(files[j])) <= 1) =>
        /\ result.tag = "Ok"
        /\ Len(tasks) = Cardinality(MatchedFiles)
        /\ Len(tasks) <= Len(files)
        /\ \A k \in DOMAIN tasks :
              LET j == NthMatched(k)
                  i == CHOOSE i \in MatchingMappings(files[j]) : TRUE
              IN tasks[k] = create_task(mappings[i].action, files[j])

\* C5 (as stated): when some file matches the rules of two or more mappings,
\* determine_tasks fails with the duplicate-rule error, which names two
\* matching mappings and the file, and returns no tasks.
C5_DuplicateRuleMatchFails ==
    (pc = "resolved" /\ \E j \in DOMAIN files : Cardinality(MatchingMappings(files[j])) >= 2) =>
        /\ result.tag = "Err"
        /\ tasks = <<>>
        /\ Len(result.error) = 4
        /\ result.error[1] = "Duplicate rules {:?} and {:?} match file {}"
        /\ \E j \in DOMAIN files :
              \E i1, i2 \in MatchingMappings(files[j]) :
                  /\ i1 < i2
                  /\ result.error[2] = mappings[i1].rule
                  /\ result.error[3] = mappings[i2].rule
                  /\ result.error[4] = files[j]

\* C9 (as stated): rule matching has no failure mode: for every path, one
\* without a file name included, it returns true or false and the program
\* does not abort.
C9_RuleMatchNeverFails ==
    pc = "resolved" =>
        /\ result.tag # "Panic"
        /\ \A i \in DOMAIN mappings, j \in DOMAIN files :
              file_matches_rule(mappings[i].rule, files[j]) \in {"true", "false"}

\* The positions in `files` a task list is bound to form a strictly
\* increasing sequence.
InFileOrder(taskList) ==
    \E at \in [DOMAIN taskList -> DOMAIN files] :
        /\ \A k \in DOMAIN taskList : files[at[k]] = taskList[k].file
        /\ \A k1, k2 \in DOMAIN taskList : k1 < k2 => at[k1] < at[k2]

\* C10: the tasks determine_tasks returns are in the order of their files in
\* the file list, and when the files are pairwise distinct no two tasks are
\* bound to the same file.
C10_TasksInFileOrder ==
    (pc = "resolved" /\ result.tag = "Ok") =>
        /\ InFileOrder(tasks)
        /\ (\A j1, j2 \in DOMAIN files : j1 # j2 => files[j1] # files[j2]) =>
               \A k1, k2 \in DOMAIN tasks : k1 # k2 => tasks[k1].file # tasks[k2].file

\* Two distinct files, each with a task; an unmatched file would come between.
C10_Witness ==
    /\ pc = "resolved"
    /\ result.tag = "Ok"
    /\ Len(tasks) = 2
    /\ tasks[1].file # tasks[2].file
    /\ tasks[1].file = files[1]


---------------------------------------------------------------------------
(* The filesystem calls of action.rs and main.rs.  `granted` says whether  *)
(* the operating system lets the call succeed (permissions, legal names);  *)
(* a call that fails leaves the filesystem as it was.                      *)

Prefixes(path) == {SubSeq(path, 1, k) : k \in 1..Len(path)}

Parent(path) == SubSeq(path, 1, Len(path) - 1)

\* Path::is_dir
is_dir(path, dirsNow) == path \in dirsNow

\* Path::is_file
is_file(path, contentsNow) == path \in DOMAIN contentsNow

\* fs::create_dir_all: the directory and its missing ancestors; a regular
\* file on the way makes it fail.
create_dir_all(path, dirsNow, contentsNow, granted) ==
    IF granted /\ \A prefix \in Prefixes(path) : ~is_file(prefix, contentsNow)
    THEN [ok |-> TRUE, dirs |-> dirsNow \cup Prefixes(path)]
    ELSE [ok |-> FALSE, dirs |-> dirsNow]

\* The content of a file truncated to nothing.
Truncated == <<>>

\* What a regular file holds after a write of `content` to `to`.
Written(contentsNow, to, content) ==
    [p \in DOMAIN contentsNow \cup {to} |-> IF p = to THEN content ELSE contentsNow[p]]

Removed(contentsNow, from) ==
    [p \in DOMAIN contentsNow \ {from} |-> contentsNow[p]]

\* A file can be written at `to`: its directory exists and `to` is no directory.
Writable(to, dirsNow) == is_dir(Parent(to), dirsNow) /\ ~is_dir(to, dirsNow)

\* fs::copy.  The source must be a regular file.  Copying a file onto itself
\* either is refused by the operating system (granted = FALSE) or opens the
\* file for writing while it is read, which leaves it truncated.
fs_copy(from, to, dirsNow, contentsNow, granted) ==
    IF granted /\ is_file(from, contentsNow) /\ Writable(to, dirsNow)
    THEN [ok |-> TRUE,
          contents |-> Written(contentsNow, to,
                               IF from = to THEN Truncated ELSE contentsNow[from])]
    ELSE [ok |-> FALSE, contents |-> contentsNow]

\* fs::rename.  Renaming a file to itself succeeds and does nothing.
fs_rename(from, to, dirsNow, contentsNow, granted) ==
    IF granted /\ is_file(from, contentsNow) /\ Writable(to, dirsNow)
    THEN [ok |-> TRUE,
          contents |-> IF from = to
                       THEN contentsNow
                       ELSE Removed(Written(contentsNow, to, contentsNow[from]), from)]
    ELSE [ok |-> FALSE, contents |-> contentsNow]

---------------------------------------------------------------------------
(* Actions and tasks (action.rs).                                          *)

DirectoryCreationFailed(destination_directory) ==
    <<"Unable to create destination directory: {}", destination_directory>>

NoFileName(file) ==
    <<"Internal failure: File {} does not have a file name. This is a bug.", file>>

FileOperationFailed(kind, file, destination) ==
    <<IF kind = "Copy"
      THEN "Unable to copy file {} to destination {}"
      ELSE "Unable to move file {} to destination {}",
      file, destination>>

\* mutant: the directory is created in a dry run too
create_output_directory_wet(destination_directory, relative_output_directory, dry_run, dirsNow, contentsNow, granted) ==
    LET destination == Join(destination_directory, relative_output_directory)
        created == create_dir_all(destination, dirsNow, contentsNow, granted)
    IN IF ~is_dir(destination, dirsNow)
       THEN IF created.ok
            THEN [result |-> Ok, path |-> destination, dirs |-> created.dirs]
            ELSE [result |-> Err(DirectoryCreationFailed(destination)),
                  path |-> destination, dirs |-> created.dirs]
       ELSE [result |-> Ok, path |-> destination, dirs |-> dirsNow]

\* mutant: the directory is created without a look at whether it is there
create_output_directory_unchecked(destination_directory, relative_output_directory, dry_run, dirsNow, contentsNow, granted) ==
    LET destination == Join(destination_directory, relative_output_directory)
        created == create_dir_all(destination, dirsNow, contentsNow, granted)
    IN IF ~dry_run
       THEN IF created.ok
            THEN [result |-> Ok, path |-> destination, dirs |-> created.dirs]
            ELSE [result |-> Err(DirectoryCreationFailed(destination)),
                  path |-> destination, dirs |-> created.dirs]
       ELSE [result |-> Ok, path |-> destination, dirs |-> dirsNow]

create_output_directory(destination_directory, relative_output_directory, dry_run, dirsNow, contentsNow, granted) ==
    LET destination == Join(destination_directory, relative_output_directory)
        created == create_dir_all(destination, dirsNow, contentsNow, granted)
    IN IF ~is_dir(destination, dirsNow) /\ ~dry_run
       THEN IF created.ok
            THEN [result |-> Ok, path |-> destination, dirs |-> created.dirs]
            ELSE [result |-> Err(DirectoryCreationFailed(destination)),
                  path |-> destination, dirs |-> created.dirs]
       ELSE [result |-> Ok, path |-> destination, dirs |-> dirsNow]

\* mutant: a move that copies
operation_copies(kind, file, destination, context, dirsNow, contentsNow, granted) ==
    LET done == fs_copy(file, destination, dirsNow, contentsNow, granted)
    IN IF context.dry_run
       THEN [result |-> Ok, contents |-> contentsNow]
       ELSE IF done.ok
            THEN [result |-> Ok, contents |-> done.contents]
            ELSE [result |-> Err(FileOperationFailed(kind, file, destination)),
                  contents |-> done.contents]

\* The closure CopyAction::create_task and MoveAction::create_task hand to
\* perform_file_operation.
operation(kind, file, destination, context, dirsNow, contentsNow, granted) ==
    LET done == IF kind = "Copy"
                THEN fs_copy(file, destination, dirsNow, contentsNow, granted)
                ELSE fs_rename(file, destination, dirsNow, contentsNow, granted)
    IN IF context.dry_run
       THEN [result |-> Ok, contents |-> contentsNow]
       ELSE IF done.ok
            THEN [result |-> Ok, contents |-> done.contents]
            ELSE [result |-> Err(FileOperationFailed(kind, file, destination)),
                  contents |-> done.contents]

\* The path the task's file is copied or moved to.
Destination(task, context) ==
    Join(Join(context.dest_dir, task.relative_destination), <<file_name(task.file)>>)

\* mutant: the file operation is tried whether or not the output directory
\* could be created
perform_file_operation_regardless(task, context, dirsNow, contentsNow, os) ==
    LET output_directory ==
            create_output_directory(context.dest_dir, task.relative_destination,
                                    context.dry_run, dirsNow, contentsNow, os.create_dir)
    IN IF file_name(task.file) = NoName
       THEN [result |-> Err(NoFileName(task.file)),
             dirs |-> output_directory.dirs, contents |-> contentsNow]
       ELSE LET destination == Join(output_directory.path, <<file_name(task.file)>>)
                operated == operation(task.kind, task.file, destination, context,
                                      output_directory.dirs, contentsNow, os.operation)
            IN [result |-> operated.result,
                dirs |-> output_directory.dirs, contents |-> operated.contents]

\* mutant: the destination takes the name of the relative destination, not
\* the file's
perform_file_operation_misnamed(task, context, dirsNow, contentsNow, os) ==
    LET output_directory ==
            create_output_directory(context.dest_dir, task.relative_destination,
                                    context.dry_run, dirsNow, contentsNow, os.create_dir)
    IN IF output_directory.result.tag = "Err"
       THEN [result |-> output_directory.result,
             dirs |-> output_directory.dirs, contents |-> contentsNow]
       ELSE IF file_name(task.file) = NoName
            THEN [result |-> Err(NoFileName(task.file)),
                  dirs |-> output_directory.dirs, contents |-> contentsNow]
            ELSE LET destination == Join(output_directory.path,
                                         <<file_name(task.relative_destination)>>)
                     operated == operation(task.kind, task.file, destination, context,
                                           output_directory.dirs, contentsNow, os.operation)
                 IN [result |-> operated.result,
                     dirs |-> output_directory.dirs, contents |-> operated.contents]

\* mutant: the file name is looked at before the output directory is made
perform_file_operation_name_first(task, context, dirsNow, contentsNow, os) ==
    LET output_directory ==
            create_output_directory(context.dest_dir, task.relative_destination,
                                    context.dry_run, dirsNow, contentsNow, os.create_dir)
    IN IF file_name(task.file) = NoName
       THEN [result |-> Err(NoFileName(task.file)),
             dirs |-> dirsNow, contents |-> contentsNow]
       ELSE IF output_directory.result.tag = "Err"
            THEN [result |-> output_directory.result,
                  dirs |-> output_directory.dirs, contents |-> contentsNow]
            ELSE LET destination == Join(output_directory.path, <<file_name(task.file)>>)
                     operated == operation(task.kind, task.file, destination, context,
                                           output_directory.dirs, contentsNow, os.operation)
                 IN [result |-> operated.result,
                     dirs |-> output_directory.dirs, contents |-> operated.contents]

perform_file_operation(task, context, dirsNow, contentsNow, os) ==
    LET output_directory ==
            create_output_directory(context.dest_dir, task.relative_destination,
                                    context.dry_run, dirsNow, contentsNow, os.create_dir)
    IN IF output_directory.result.tag = "Err"
       THEN [result |-> output_directory.result,
             dirs |-> output_directory.dirs, contents |-> contentsNow]
       ELSE IF file_name(task.file) = NoName
            THEN [result |-> Err(NoFileName(task.file)),
                  dirs |-> output_directory.dirs, contents |-> contentsNow]
            ELSE LET destination == Join(output_directory.path, <<file_name(task.file)>>)
                     operated == operation(task.kind, task.file, destination, context,
                                           output_directory.dirs, contentsNow, os.operation)
                 IN [result |-> operated.result,
                     dirs |-> output_directory.dirs, contents |-> operated.contents]

\* MapFileTask::execute
execute(task, context, dirsNow, contentsNow, os) ==
    perform_file_operation(task, context, dirsNow, contentsNow, os)

\* What the operating system may answer to the calls of one task.
OsOutcomes == [create_dir : BOOLEAN, operation : BOOLEAN]

---------------------------------------------------------------------------
(* The task loop of run (main.rs).                                         *)

\* mutant: the loop goes on after a failed task
after_execute_goes_on(taskResult) == "execute"

\* task.execute(&file_context)? : an error ends the loop.
after_execute(taskResult) == IF taskResult.tag = "Err" THEN "failed" ELSE "execute"

\* mutant: the task executed stays in the list
ExecuteTask_keeps ==
    /\ pc = "execute"
    /\ tasks # <<>>
    /\ \E os \in OsOutcomes :
          LET task == tasks[Len(tasks)]
              done == execute(task, file_context, dirs, contents, os)
          IN /\ tasks' = tasks
             /\ dirs' = done.dirs
             /\ contents' = done.contents
             /\ executed' = Append(executed, [task |-> task, result |-> done.result])
             /\ pc' = after_execute(done.result)
             /\ result' = IF pc' = "failed" THEN done.result ELSE result
    /\ UNCHANGED <<dispatchVars, rules, mappings, files, file_context>>

\* mutant: the tasks are taken from the front of the list
ExecuteTask_front ==
    /\ pc = "execute"
    /\ tasks # <<>>
    /\ \E os \in OsOutcomes :
          LET task == tasks[1]
              done == execute(task, file_context, dirs, contents, os)
          IN /\ tasks' = Tail(tasks)
             /\ dirs' = done.dirs
             /\ contents' = done.contents
             /\ executed' = Append(executed, [task |-> task, result |-> done.result])
             /\ pc' = after_execute(done.result)
             /\ result' = IF pc' = "failed" THEN done.result ELSE result
    /\ UNCHANGED <<dispatchVars, rules, mappings, files, file_context>>

\* while let Some(task) = tasks.pop() { task.execute(&file_context)?; }
ExecuteTask ==
    /\ pc = "execute"
    /\ tasks # <<>>
    /\ \E os \in OsOutcomes :
          LET task == tasks[Len(tasks)]
              done == execute(task, file_context, dirs, contents, os)
          IN /\ tasks' = SubSeq(tasks, 1, Len(tasks) - 1)
             /\ dirs' = done.dirs
             /\ contents' = done.contents
             /\ executed' = Append(executed, [task |-> task, result |-> done.result])
             /\ pc' = after_execute(done.result)
             /\ result' = IF pc' = "failed" THEN done.result ELSE result
    /\ UNCHANGED <<dispatchVars, rules, mappings, files, file_context>>

\* Ok(()) when no task is left
Finish ==
    /\ pc = "execute"
    /\ tasks = <<>>
    /\ pc' = "done"
    /\ result' = Ok
    /\ UNCHANGED <<dispatchVars, rules, mappings, files, tasks, file_context, fsVars, executed>>

---------------------------------------------------------------------------
(* The filesystems and contexts the checks start from.                     *)

Dest1 == << <<"c">> >>
Dest2 == << <<"m">> >>

DestDirs == {Dest1, Dest2}

\* The source directory exists; of the destination trees any part may.
\* Dest1 joined with the relative destination "m" is the source directory.
OptionalDirs == {Dest2, Join(Dest1, << <<"c">> >>), Join(Dest2, << <<"c">> >>)}

InitialDirs ==
    {Prefixes(SourceDir) \cup extra : extra \in
        {x \in SUBSET (OptionalDirs \ {SourceDir}) : \A d \in x : Prefixes(d) \subseteq x \cup Prefixes(SourceDir)}}

SourceNames == {<<"c">>, <<"m">>, <<"c", "c">>}

SourceFiles == {SourceDir \o <<name>> : name \in SourceNames}

\* Regular files that may be in the way: one where an output directory
\* would be, one where a file would be written.
Occupants(dirsNow) ==
    {p \in {Join(Dest1, << <<"c">> >>), Join(Dest2, << <<"c">>, <<"c">> >>)} :
        p \notin dirsNow /\ Parent(p) \in dirsNow}

\* Every file starts out with content of its own: its path.
InitialContents(dirsNow) ==
    {[p \in present \cup occupied |-> p] :
        present \in SUBSET SourceFiles,
        occupied \in {x \in SUBSET Occupants(dirsNow) : Cardinality(x) <= 1}}

Contexts ==
    [source_dir : {SourceDir}, dest_dir : DestDirs, dry_run : BOOLEAN]

---------------------------------------------------------------------------
(* One task, built by create_task for any path, executed once.             *)

TaskPaths == SourceFiles \cup {SourceDir \o << <<"c">>, ParentDir >>}

TaskActions ==
    {CopyAction(d) : d \in RelativeDestinations} \cup {MoveAction(d) : d \in RelativeDestinations}

TaskInit ==
    /\ pc = "execute"
    /\ DispatchIdle
    /\ rules = <<>>
    /\ mappings = <<>>
    /\ files = <<>>
    /\ \E action \in TaskActions, file \in TaskPaths : tasks = <<create_task(action, file)>>
    /\ file_context \in Contexts
    /\ dirs \in InitialDirs
    /\ contents \in InitialContents(dirs)
    /\ executed = <<>>
    /\ result = Pending

TaskNext == ExecuteTask \/ Finish

SpecTask == TaskInit /\ [][TaskNext]_vars

\* The execution a step appends to the log.
LastExecuted == executed'[Len(executed')]

\* C6: in a dry run a task creates no directory and creates, copies, renames
\* or removes no file; it succeeds when its file has a file name, and
\* otherwise fails with the missing-file-name error, its only failure.
C6_DryRunChangesNothing ==
    [][(file_context.dry_run /\ executed' # executed) =>
          /\ dirs' = dirs
          /\ contents' = contents
          /\ IF file_name(LastExecuted.task.file) # NoName
             THEN LastExecuted.result = Ok
             ELSE LastExecuted.result = Err(NoFileName(LastExecuted.task.file))]_vars

\* A dry run executed a task for a file with a name whose output directory
\* does not exist, and the directory still does not exist.
C6_Witness ==
    /\ file_context.dry_run
    /\ Len(executed) = 1
    /\ executed[1].result = Ok
    /\ Join(file_context.dest_dir, executed[1].task.relative_destination) \notin dirs

\* C7 (as stated): not in a dry run, with the source file f existing, after
\* a Copy task succeeds f is still there and a file is at
\* dest_dir/relative_destination/basename(f); after a Move task succeeds f is
\* no longer at its path and the file is at the destination.
C7_CopyKeepsMoveRemoves ==
    [][(/\ executed' # executed
        /\ ~file_context.dry_run
        /\ is_file(LastExecuted.task.file, contents)
        /\ LastExecuted.result = Ok) =>
          LET task == LastExecuted.task
          IN /\ is_file(Destination(task, file_context), contents')
             /\ task.kind = "Copy" => is_file(task.file, contents')
             /\ task.kind = "Move" => ~is_file(task.file, contents')]_vars

\* C7 (amended): as C7, but a Move removes f from its path only when the
\* destination is another path than f's own, and then the destination holds
\* what f held.
C7_CopyKeepsMoveRemovesElsewhere ==
    [][(/\ executed' # executed
        /\ ~file_context.dry_run
        /\ is_file(LastExecuted.task.file, contents)
        /\ LastExecuted.result = Ok) =>
          LET task == LastExecuted.task
          IN /\ is_file(Destination(task, file_context), contents')
             /\ task.kind = "Copy" => is_file(task.file, contents')
             /\ (task.kind = "Move" /\ Destination(task, file_context) # task.file) =>
                   /\ ~is_file(task.file, contents')
                   /\ contents'[Destination(task, file_context)] = contents[task.file]]_vars

\* A Move succeeded, not in a dry run: the file is gone from the source
\* directory and is at its destination.
C7_Witness ==
    /\ ~file_context.dry_run
    /\ Len(executed) = 1
    /\ executed[1].task.kind = "Move"
    /\ executed[1].result = Ok
    /\ ~is_file(executed[1].task.file, contents)
    /\ is_file(Destination(executed[1].task, file_context), contents)
    /\ contents[Destination(executed[1].task, file_context)] = executed[1].task.file


---------------------------------------------------------------------------
(* run (main.rs): mappings, file paths, tasks, then the task loop.         *)

MaxRules == 2

RECURSIVE LineLoop(_, _, _, _)
\* The loop of mappings_from_file over the lines from position i on.
LineLoop(directives, lines, i, mappingList) ==
    IF i > Len(lines)
    THEN [result |-> Ok, mappings |-> mappingList]
    ELSE LET found == mapping_from_string(directives, lines[i])
         IN IF found.tag = "SomeErr"
            THEN [result |-> Err(found.error), mappings |-> <<>>]
            ELSE LineLoop(directives, lines, i + 1,
                     IF found.tag = "SomeOk"
                     THEN Append(mappingList, found.mapping)
                     ELSE mappingList)

RECURSIVE LineLoopSkipping(_, _, _, _)
\* mutant: a line with an error is skipped like a line no directive matches
LineLoopSkipping(directives, lines, i, mappingList) ==
    IF i > Len(lines)
    THEN [result |-> Ok, mappings |-> mappingList]
    ELSE LET found == mapping_from_string(directives, lines[i])
         IN LineLoopSkipping(directives, lines, i + 1,
                IF found.tag = "SomeOk"
                THEN Append(mappingList, found.mapping)
                ELSE mappingList)

mappings_from_file_skipping(directives, lines, readable) ==
    IF ~readable
    THEN [result |-> Err(<<"Unable to open directive file {}">>), mappings |-> <<>>]
    ELSE LineLoopSkipping(directives, lines, 1, <<>>)

\* mappings_from_file; `readable` says whether the file can be opened and read.
mappings_from_file(directives, lines, readable) ==
    IF ~readable
    THEN [result |-> Err(<<"Unable to open directive file {}">>), mappings |-> <<>>]
    ELSE LineLoop(directives, lines, 1, <<>>)

\* run, for a rules argument: the one line's mapping, if any.
mappings_from_arg(directives, line) ==
    LET found == mapping_from_string(directives, line)
    IN IF found.tag = "SomeErr"
       THEN [result |-> Err(found.error), mappings |-> <<>>]
       ELSE [result |-> Ok,
             mappings |-> IF found.tag = "SomeOk" THEN <<found.mapping>> ELSE <<>>]

\* The regular files directly in a directory; subdirectories are skipped.
FilesIn(directory, contentsNow) ==
    {p \in DOMAIN contentsNow : Parent(p) = directory}

\* The orders read_dir may list a set of entries in.
Orders(S) ==
    {order \in [1..Cardinality(S) -> S] :
        \A i, j \in 1..Cardinality(S) : i # j => order[i] # order[j]}

\* The configuration lines of the runs checked: copy the files with a "c"
\* to m, move those with an "m" to c, move every file to m, a pattern that
\* does not compile, and a blank line.
RuleLines ==
    {<<"c", "/", "c", "/", "m">>,
     <<"m", "/", "m", "/", "c">>,
     <<"m", "/", "/", "m">>,
     <<"c", "/", "(", "/", "m">>,
     <<>>}

RuleSources ==
    [kind : {"rules-file"}, lines : SeqsUpTo(RuleLines, MaxRules)]
        \cup [kind : {"rules-arg"}, lines : {<<line>> : line \in RuleLines}]

Init ==
    /\ pc = "start"
    /\ DispatchIdle
    /\ rules \in RuleSources
    /\ mappings = <<>>
    /\ files = <<>>
    /\ tasks = <<>>
    /\ file_context \in Contexts
    /\ dirs \in InitialDirs
    /\ contents \in InitialContents(dirs)
    /\ executed = <<>>
    /\ result = Pending

\* run: the mappings of the rules file or of the rules argument
LoadMappings ==
    /\ pc = "start"
    /\ \E readable \in BOOLEAN :
          \E loaded \in {IF rules.kind = "rules-file"
                          THEN mappings_from_file(create_directives, rules.lines, readable)
                          ELSE mappings_from_arg(create_directives, rules.lines[1])} :
             /\ mappings' = loaded.mappings
             /\ result' = IF loaded.result.tag = "Err" THEN loaded.result ELSE result
             /\ pc' = IF loaded.result.tag = "Err" THEN "failed" ELSE "mapped"
    /\ UNCHANGED <<dispatchVars, rules, files, tasks, file_context, fsVars, executed>>

\* run: get_file_paths(&source_dir)
GetFilePaths ==
    /\ pc = "mapped"
    /\ \E readable \in BOOLEAN :
          IF readable /\ is_dir(file_context.source_dir, dirs)
          THEN /\ files' \in Orders(FilesIn(file_context.source_dir, contents))
               /\ pc' = "listed"
               /\ result' = result
          ELSE /\ files' = files
               /\ pc' = "failed"
               /\ result' = Err(<<"Unable to read entries of directory {}",
                                  file_context.source_dir>>)
    /\ UNCHANGED <<dispatchVars, rules, mappings, tasks, file_context, fsVars, executed>>

\* run: determine_tasks(&mappings, &file_paths, &file_context)?
DetermineTasks ==
    /\ pc = "listed"
    /\ LET determined == determine_tasks(mappings, files)
       IN /\ tasks' = determined.tasks
          /\ result' = IF determined.tag = "Ok"
                       THEN result
                       ELSE [tag |-> determined.tag, error |-> determined.error]
          /\ pc' = CASE determined.tag = "Ok" -> "execute"
                     [] determined.tag = "Err" -> "failed"
                     [] OTHER -> "panicked"
    /\ UNCHANGED <<dispatchVars, rules, mappings, files, file_context, fsVars, executed>>

Next == LoadMappings \/ GetFilePaths \/ DetermineTasks \/ ExecuteTask \/ Finish

Spec == Init /\ [][Next]_vars

\* C8: the first task execution that returns an error ends the run with that
\* error: a task is executed only when every execution before it succeeded,
\* a failed run takes no further step, and the failing step undoes nothing
\* (every file and directory there before it is as it was).
C8_FailFast ==
    [][/\ pc = "failed" => UNCHANGED vars
       /\ executed' # executed =>
             /\ \A k \in DOMAIN executed :
                   executed[k].result = Ok /\ executed'[k] = executed[k]
             /\ LastExecuted.result.tag = "Err" =>
                   /\ pc' = "failed"
                   /\ result' = LastExecuted.result
                   /\ tasks' = SubSeq(tasks, 1, Len(tasks) - 1)
                   /\ dirs \subseteq dirs'
                   /\ contents' = contents]_vars

\* A run failed at its second task with a task left: the first task's copy
\* is in place and the task left is not executed.
C8_Witness ==
    /\ pc = "failed"
    /\ Len(executed) = 2
    /\ executed[1].result = Ok
    /\ executed[1].task.kind = "Copy"
    /\ is_file(Destination(executed[1].task, file_context), contents)
    /\ executed[2].result.tag = "Err"
    /\ result = executed[2].result
    /\ tasks # <<>>


---------------------------------------------------------------------------
(* The rules file of a run, line by line.                                  *)

\* What the program's directives make of the i-th line of the rules file.
LineResult(i) == mapping_from_string(create_directives, rules.lines[i])

ErrLines == {i \in DOMAIN rules.lines : LineResult(i).tag = "SomeErr"}

OkLines == {i \in DOMAIN rules.lines : LineResult(i).tag = "SomeOk"}

\* The k-th line that parses to a Mapping.
NthOkLine(k) ==
    CHOOSE i \in OkLines : Cardinality({j \in OkLines : j <= i}) = k

\* C11: of a rules file that can be read, when no line gives an error the
\* mappings are those of the lines a directive parses, one for each such
\* line and in line order, the other lines being skipped; otherwise
\* mappings_from_file fails with the error of the first line that gives one
\* and with no mappings.  In a run whose rules file has a line with an
\* error no file is enumerated, no task is determined or executed and the
\* filesystem stays as it was.
C11_RulesFileRead ==
    [][/\ (/\ pc = "start"
           /\ pc' # "start"
           /\ rules.kind = "rules-file"
           /\ result' # Err(<<"Unable to open directive file {}">>)) =>
             IF ErrLines = {}
             THEN /\ pc' = "mapped"
                  /\ result' = Pending
                  /\ Len(mappings') = Cardinality(OkLines)
                  /\ \A k \in DOMAIN mappings' :
                        mappings'[k] = LineResult(NthOkLine(k)).mapping
             ELSE /\ pc' = "failed"
                  /\ result' = Err(LineResult(Min(ErrLines)).error)
                  /\ mappings' = <<>>
       /\ (rules.kind = "rules-file" /\ ErrLines # {}) =>
             /\ pc' \in {"start", "failed"}
             /\ files' = <<>>
             /\ tasks' = <<>>
             /\ executed' = <<>>
             /\ UNCHANGED fsVars]_vars

\* A rules file whose first line parses and whose second line has a pattern
\* that does not compile: the run failed with the second line's error and
\* without mappings or files.
C11_Witness ==
    /\ pc = "failed"
    /\ rules.kind = "rules-file"
    /\ Len(rules.lines) = 2
    /\ LineResult(1).tag = "SomeOk"
    /\ LineResult(2).tag = "SomeErr"
    /\ result = Err(LineResult(2).error)
    /\ mappings = <<>>
    /\ files = <<>>


---------------------------------------------------------------------------
(* The grammars of the Copy and Move directives, on every line.            *)

\* The letter a built-in directive's format starts with.
Letter(directive) == IF directive = copy_regex_directive THEN "c" ELSE "m"

BuiltIn == {copy_regex_directive, move_regex_directive}

\* The string neither starts nor ends with white space.
Trimmed(s) == s = <<>> \/ (~IsSpace(s[1]) /\ ~IsSpace(s[Len(s)]))

\* C12 (as stated): for every line the Copy or the Move grammar accepts,
\* neither the captured pattern nor the captured destination starts or ends
\* with white space, and so neither does the pattern of the Mapping built.
C12_CapturesTrimmed ==
    pc = "dispatched" =>
        \A i \in DOMAIN all_directives :
            all_directives[i] \in BuiltIn =>
                LET captures == Captures(Letter(all_directives[i]), directive_definition)
                IN captures.matched =>
                      /\ Trimmed(captures.regex)
                      /\ Trimmed(captures.destination)
                      /\ (Len(all_directives) = 1 /\ dispatched.tag = "SomeOk") =>
                            Trimmed(dispatched.mapping.rule.rule)

\* C13: no line is accepted by both the Copy and the Move grammar, and
\* mapping_from_string with the directives of create_directives() never
\* returns the ambiguity error.
C13_BuiltInsExclusive ==
    (pc = "dispatched" /\ all_directives = create_directives) =>
        /\ \/ create_mapping(copy_regex_directive, directive_definition) = None
           \/ create_mapping(move_regex_directive, directive_definition) = None
        /\ dispatched.tag = "SomeErr" =>
              dispatched.error[1] # "Ambiguous directive '{}', which matched {}"

\* A line the Move grammar accepts that has the Copy letter in its pattern
\* and its destination: only the Move directive matched.
C13_Witness ==
    /\ pc = "dispatched"
    /\ all_directives = create_directives
    /\ dispatched.tag = "SomeOk"
    /\ dispatched.mapping.action.kind = "Move"
    /\ dispatched.mapping.rule.rule = <<"c">>
    /\ dispatched.mapping.action.relative_destination = << <<"c">> >>

\* C14: when a line fits the grammar of a built-in directive and its pattern
\* does not compile, the directive's result is Some(Err(..)) with the
\* pattern error and without a Mapping; a Mapping comes out only with a
\* pattern that compiles, with the directive's action and with the
\* destination the line gives.
C14_InvalidPatternNoMapping ==
    (pc = "dispatched" /\ Len(all_directives) = 1 /\ all_directives[1] \in BuiltIn) =>
        LET directive == all_directives[1]
            captures == Captures(Letter(directive), directive_definition)
        IN /\ (captures.matched /\ ~RegexCompiles(captures.regex)) =>
                 /\ dispatched.tag = "SomeErr"
                 /\ dispatched.mapping = NoMapping
                 /\ dispatched.error =
                       <<IF directive = copy_regex_directive
                         THEN "Unable to parse regex for copy rule {}"
                         ELSE "Unable to parse regex for move rule {}",
                         captures.regex>>
           /\ dispatched.tag = "SomeOk" =>
                 /\ captures.matched
                 /\ RegexCompiles(dispatched.mapping.rule.rule)
                 /\ dispatched.mapping.rule.rule = captures.regex
                 /\ dispatched.mapping.action.kind = Display(directive)
                 /\ dispatched.mapping.action.relative_destination =
                       PathBufFrom(captures.destination)
           /\ dispatched.tag # "SomeOk" => dispatched.mapping = NoMapping

\* The line "m/(/c" given to the Move directive: the pattern error.
C14_Witness ==
    /\ pc = "dispatched"
    /\ all_directives = <<move_regex_directive>>
    /\ directive_definition = <<"m", "/", "(", "/", "c">>
    /\ dispatched.tag = "SomeErr"
    /\ dispatched.error = <<"Unable to parse regex for move rule {}", <<"(">> >>


---------------------------------------------------------------------------
(* The failures of one task.                                               *)

\* The directory a task's file goes to.
OutputDirectory(task, context) == Join(context.dest_dir, task.relative_destination)

\* C15: not in a dry run, a task whose output directory is missing and
\* cannot be created fails with the directory-creation error that names the
\* directory, and no copy or move is tried: the source file is where it
\* was, with what it held, and nothing is written at the destination.  A
\* task whose output directory is there and whose file has a name fails
\* only with the copy or move error, which names the file and the
\* destination, and it does fail when the source is no regular file.
C15_FailuresNamed ==
    [][(executed' # executed /\ ~file_context.dry_run) =>
          LET task == LastExecuted.task
              status == LastExecuted.result
              output == OutputDirectory(task, file_context)
          IN /\ ~is_dir(output, dirs') =>
                   status = Err(DirectoryCreationFailed(output))
             /\ (status.tag = "Err"
                    /\ status.error[1] = "Unable to create destination directory: {}") =>
                   /\ ~is_dir(output, dirs')
                   /\ contents' = contents
                   /\ is_file(task.file, contents') = is_file(task.file, contents)
                   /\ is_file(Destination(task, file_context), contents')
                         = is_file(Destination(task, file_context), contents)
             /\ (is_dir(output, dirs') /\ file_name(task.file) # NoName) =>
                   /\ status.tag = "Err" =>
                         status = Err(FileOperationFailed(task.kind, task.file,
                                          Destination(task, file_context)))
                   /\ ~is_file(task.file, contents) => status.tag = "Err"]_vars

\* The output directory could not be created: the task failed with the
\* directory-creation error, its file is still in the source directory and
\* nothing is at the destination.
C15_Witness ==
    /\ ~file_context.dry_run
    /\ Len(executed) = 1
    /\ executed[1].result =
          Err(DirectoryCreationFailed(OutputDirectory(executed[1].task, file_context)))
    /\ ~is_dir(OutputDirectory(executed[1].task, file_context), dirs)
    /\ is_file(executed[1].task.file, contents)
    /\ contents[executed[1].task.file] = executed[1].task.file
    /\ ~is_file(Destination(executed[1].task, file_context), contents)


---------------------------------------------------------------------------
(* The tasks of a run.                                                     *)

\* The tasks determine_tasks returns for the run's mappings and files.
Determined == determine_tasks(mappings, files).tasks

\* How many of the executions logged are of the task.
TimesExecuted(task, log) == Cardinality({k \in DOMAIN log : log[k].task = task})

\* C16: a step of the task loop executes one task of the list, which was
\* not executed before and is in the list no longer, so no task is executed
\* twice and the list gets shorter with every execution.  A run ends with
\* Ok only from the loop with the task list empty, and then every task
\* determine_tasks returned was executed exactly once, with success.
C16_EachTaskOnce ==
    [][/\ executed' # executed =>
             /\ Len(executed') = Len(executed) + 1
             /\ Len(tasks') = Len(tasks) - 1
             /\ \E k \in DOMAIN tasks : tasks[k] = LastExecuted.task
             /\ \A k \in DOMAIN tasks' : tasks'[k] # LastExecuted.task
             /\ TimesExecuted(LastExecuted.task, executed') = 1
       /\ (pc = "execute" /\ tasks = <<>>) => pc' = "done"
       /\ pc' = "done" =>
             /\ result' = Ok
             /\ tasks' = <<>>
             /\ Len(executed') = Len(Determined)
             /\ \A i \in DOMAIN Determined : TimesExecuted(Determined[i], executed') = 1
             /\ \A k \in DOMAIN executed' : executed'[k].result = Ok]_vars

\* A run ended with Ok after three tasks.
C16_Witness ==
    /\ pc = "done"
    /\ Len(Determined) = 3
    /\ Len(executed) = 3
    /\ tasks = <<>>
    /\ ~file_context.dry_run


---------------------------------------------------------------------------
(* What a rule is matched against.                                         *)

\* The pattern, a string of literal characters, occurs in the text.
Occurs(pattern, text) ==
    \E from \in 1..(Len(text) + 1) :
        /\ from + Len(pattern) - 1 <= Len(text)
        /\ SubSeq(text, from, from + Len(pattern) - 1) = pattern

\* The final component of a path.
BaseName(path) == path[Len(path)]

\* The resolver gave the file at position j a task.
HasTask(j) == \E k \in DOMAIN tasks : tasks[k].file = files[j]

\* C17: with one mapping and files that all have a base name, a file gets a
\* task exactly when the mapping's pattern occurs in its base name; a
\* pattern that occurs in the parent directories only gives it none.
C17_BaseNameOnly ==
    (/\ pc = "resolved"
     /\ Len(mappings) = 1
     /\ \A j \in DOMAIN files : file_name(files[j]) # NoName) =>
        /\ result.tag = "Ok"
        /\ \A j \in DOMAIN files :
              /\ HasTask(j) <=> Occurs(mappings[1].rule.rule, BaseName(files[j]))
              /\ file_matches_rule(mappings[1].rule, files[j]) =
                    (IF Occurs(mappings[1].rule.rule, BaseName(files[j]))
                     THEN "true" ELSE "false")

\* The file c/m/m and the pattern "c", which occurs in the path's first
\* component and not in the base name: no task.
C17_Witness ==
    /\ pc = "resolved"
    /\ Len(mappings) = 1
    /\ mappings[1].rule.rule = <<"c">>
    /\ files = <<SourceDir \o << <<"m">> >> >>
    /\ result.tag = "Ok"
    /\ tasks = <<>>


\* C18: not in a dry run, a task whose output directory is there, from the
\* start or made by a task before it, leaves the directories as they are
\* and does not fail with the directory-creation error, whatever the
\* operating system would answer to a creation.  Directories are only
\* added, and only by a task whose output directory was missing, which adds
\* that directory and its missing ancestors; so none is created twice.
C18_OutputDirectoryCreatedOnce ==
    [][/\ dirs \subseteq dirs'
       /\ dirs' # dirs => executed' # executed
       /\ (executed' # executed /\ ~file_context.dry_run) =>
             LET task == LastExecuted.task
                 status == LastExecuted.result
                 output == OutputDirectory(task, file_context)
             IN /\ is_dir(output, dirs) =>
                      /\ dirs' = dirs
                      /\ status.tag = "Err" =>
                            status.error[1] # "Unable to create destination directory: {}"
                      /\ (file_name(task.file) # NoName /\ status.tag = "Err") =>
                            status.error[1] \in
                                {"Unable to copy file {} to destination {}",
                                 "Unable to move file {} to destination {}"}
                /\ dirs' # dirs =>
                      /\ ~is_dir(output, dirs)
                      /\ dirs' = dirs \cup Prefixes(output)]_vars

\* Two tasks with the output directory m/m, which no run starts with: the
\* first created it and the second succeeded with it in place.
C18_Witness ==
    /\ ~file_context.dry_run
    /\ Len(executed) = 2
    /\ OutputDirectory(executed[1].task, file_context) = << <<"m">>, <<"m">> >>
    /\ OutputDirectory(executed[2].task, file_context) = << <<"m">>, <<"m">> >>
    /\ executed[1].result = Ok
    /\ executed[2].result = Ok
    /\ is_dir(<< <<"m">>, <<"m">> >>, dirs)

\* The positions of the files that two or more mappings' rules match.
AmbiguousFiles == {j \in DOMAIN files : Cardinality(MatchingMappings(files[j])) >= 2}

\* C19: no step but a task's execution changes the filesystem, and a task
\* is executed only after determine_tasks has succeeded for the whole file
\* list.  When some file is matched by two rules the run fails with the
\* duplicate-rule error for the first such file: no task is kept or
\* executed, not even for the files listed before it, and the filesystem is
\* as it was.
C19_ResolutionBeforeExecution ==
    [][/\ pc # "execute" => UNCHANGED <<fsVars, executed>>
       /\ executed' # executed =>
             /\ determine_tasks(mappings, files).tag = "Ok"
             /\ AmbiguousFiles = {}
       /\ (pc = "listed" /\ AmbiguousFiles # {}) =>
             LET j == Min(AmbiguousFiles)
                 matching == MatchingMappings(files[j])
                 first == Min(matching)
                 second == Min(matching \ {first})
             IN /\ pc' = "failed"
                /\ result' = Err(DuplicateRuleMatch(mappings[first].rule,
                                                    mappings[second].rule, files[j]))
                /\ tasks' = <<>>
                /\ executed' = <<>>
                /\ UNCHANGED fsVars]_vars

\* The second file listed is matched by two rules and the first by one:
\* the run failed with nothing executed.
C19_Witness ==
    /\ pc = "failed"
    /\ Len(files) >= 2
    /\ AmbiguousFiles # {}
    /\ Min(AmbiguousFiles) = 2
    /\ Cardinality(MatchingMappings(files[1])) = 1
    /\ result.error[1] = "Duplicate rules {:?} and {:?} match file {}"
    /\ result.error[4] = files[2]
    /\ executed = <<>>
    /\ tasks = <<>>

\* C20: the tasks are executed from the end of the list determine_tasks
\* returned: the k-th execution is of the k-th task from the end, and the
\* tasks left, after a failure too, are the first ones of the list, those
\* of the files listed earliest.
C20_ExecutedInReverse ==
    (pc \in {"execute", "done"} \/ executed # <<>>) =>
        /\ Len(executed) + Len(tasks) = Len(Determined)
        /\ tasks = SubSeq(Determined, 1, Len(tasks))
        /\ \A k \in DOMAIN executed :
              executed[k].task = Determined[Len(Determined) + 1 - k]
        /\ InFileOrder(Determined)

\* A run of three tasks failed at its first task, the last file's; the two
\* tasks left are those of the files before it.
C20_Witness ==
    /\ pc = "failed"
    /\ Len(Determined) = 3
    /\ Len(files) = 3
    /\ Len(executed) = 1
    /\ executed[1].task.file = files[3]
    /\ Len(tasks) = 2
    /\ tasks[1].file = files[1]
    /\ tasks[2].file = files[2]


---------------------------------------------------------------------------
(* The paths the tasks of a run read and write.                            *)

\* What the path holds, or that no regular file is there.
Held(path, contentsNow) ==
    IF is_file(path, contentsNow) THEN <<"file", contentsNow[path]>> ELSE <<"none">>

\* C21: in a run the files listed are pairwise distinct regular files
\* directly in source_dir, and for the task a step executes and any other
\* task determined for the run: the two have different files and different
\* destinations, neither's destination is the other's file, and the step
\* leaves the other task's file and destination as they were, present or
\* not and with what they held.
C21_TasksDoNotInterfere ==
    [][/\ files' # files =>
             \A j \in DOMAIN files' :
                /\ Parent(files'[j]) = file_context.source_dir
                /\ is_file(files'[j], contents)
                /\ \A i \in DOMAIN files' : i # j => files'[i] # files'[j]
       /\ executed # <<>> => files' = files
       /\ executed' # executed =>
             LET task == LastExecuted.task
             IN \A i \in DOMAIN Determined :
                   Determined[i] # task =>
                      LET other == Determined[i]
                      IN /\ other.file # task.file
                         /\ Destination(other, file_context) # Destination(task, file_context)
                         /\ Destination(task, file_context) # other.file
                         /\ Destination(other, file_context) # task.file
                         /\ \A p \in {other.file, Destination(other, file_context)} :
                               Held(p, contents') = Held(p, contents)]_vars

\* Two tasks whose output directory is the source directory itself, not in
\* a dry run: each moved its file onto itself, and both files hold what
\* they held.
C21_Witness ==
    /\ ~file_context.dry_run
    /\ Len(executed) = 2
    /\ OutputDirectory(executed[1].task, file_context) = file_context.source_dir
    /\ OutputDirectory(executed[2].task, file_context) = file_context.source_dir
    /\ executed[1].task.kind = "Move"
    /\ executed[2].task.kind = "Move"
    /\ executed[1].result = Ok
    /\ executed[2].result = Ok
    /\ Held(executed[1].task.file, contents) = <<"file", executed[1].task.file>>
    /\ Held(executed[2].task.file, contents) = <<"file", executed[2].task.file>>

\* C22: not in a dry run, a task whose file has no file name fails with the
\* missing-file-name error only with its output directory in place: a
\* missing one is created first, with its missing ancestors, and stays
\* after the failure; when it cannot be created the failure is the
\* directory-creation error.  Either way no file is copied, moved or
\* changed.
C22_DirectoryBeforeFileName ==
    [][(/\ executed' # executed
        /\ ~file_context.dry_run
        /\ file_name(LastExecuted.task.file) = NoName) =>
          LET task == LastExecuted.task
              status == LastExecuted.result
              output == OutputDirectory(task, file_context)
          IN /\ contents' = contents
             /\ status \in {Err(NoFileName(task.file)), Err(DirectoryCreationFailed(output))}
             /\ status = Err(NoFileName(task.file)) <=> is_dir(output, dirs')
             /\ (status = Err(NoFileName(task.file)) /\ ~is_dir(output, dirs)) =>
                   dirs' = dirs \cup Prefixes(output)]_vars

\* A task for a path that ends in ".." failed with the missing-file-name
\* error, and the output directory m/m, which no check starts with, is there.
C22_Witness ==
    /\ ~file_context.dry_run
    /\ Len(executed) = 1
    /\ file_name(executed[1].task.file) = NoName
    /\ executed[1].result = Err(NoFileName(executed[1].task.file))
    /\ OutputDirectory(executed[1].task, file_context) = << <<"m">>, <<"m">> >>
    /\ is_dir(<< <<"m">>, <<"m">> >>, dirs)

=============================================================================
